---- MODULE Spec2Model ----
(***************************************************************************)
(* Model of src/index.js: the Google Sheets -> TradingView middleware.     *)
(*                                                                         *)
(* One Express application with a process-wide NodeCache (stdTTL 300 s),   *)
(* the handler of GET /api/sheet-data (cache lookup, client construction,  *)
(* one awaited upstream read, formatting, cache write) and the handler of  *)
(* GET /api/refresh-cache.  JavaScript runs a handler without interruption *)
(* from one await to the next, so a sheet-data request is two steps: from  *)
(* its arrival to the await of line 61, and from the settlement of that    *)
(* call to the response.                                                   *)
(***************************************************************************)
EXTENDS Integers, Sequences, FiniteSets, TLC

\* ------------------------------------------------------------------ bounds
MaxReq == 2        \* GET /api/sheet-data requests in one behaviour
MaxTicks == 1      \* advances of the clock in one behaviour
MaxRows == 4       \* raw rows of a sheet given to the formatter alone

\* stdTTL of the cache, in seconds (line 11)
stdTTL == 300

\* ------------------------------------------------------- JavaScript numbers
\* A Number is NaN, +-Infinity or a decimal (-1)^neg * m * 10^e with m not
\* divisible by ten (zero is m = 0, e = 0), so equal values are equal records.
NaN == [k |-> "nan", neg |-> FALSE, m |-> 0, e |-> 0]
Inf(neg) == [k |-> "inf", neg |-> neg, m |-> 0, e |-> 0]

RECURSIVE NumDigits(_)
NumDigits(m) == IF m < 10 THEN 1 ELSE 1 + NumDigits(m \div 10)

RECURSIVE Normalize(_, _, _)
\* The double nearest to (-1)^neg * m * 10^e: decimals beyond the largest
\* double (about 1.8e308) are Infinity and those below the smallest (about
\* 5e-324) are zero.
Normalize(neg, m, e) ==
  IF m = 0 THEN [k |-> "num", neg |-> neg, m |-> 0, e |-> 0]
  ELSE IF m % 10 = 0 THEN Normalize(neg, m \div 10, e + 1)
  ELSE IF NumDigits(m) + e - 1 > 308 THEN Inf(neg)
  ELSE IF NumDigits(m) + e - 1 < -324 THEN [k |-> "num", neg |-> neg, m |-> 0, e |-> 0]
  ELSE [k |-> "num", neg |-> neg, m |-> m, e |-> e]

Num(n) == Normalize(n < 0, IF n < 0 THEN -n ELSE n, 0)

isNaN(v) == v.k = "nan"

\* ------------------------------------------------------------- parseFloat
\* A string is a sequence of one-character strings.
WhiteSpace == {" ", "\t"}
Digits == {"0", "1", "2", "3", "4", "5", "6", "7", "8", "9"}

DigitVal(ch) ==
  CASE ch = "0" -> 0 [] ch = "1" -> 1 [] ch = "2" -> 2 [] ch = "3" -> 3
    [] ch = "4" -> 4 [] ch = "5" -> 5 [] ch = "6" -> 6 [] ch = "7" -> 7
    [] ch = "8" -> 8 [] ch = "9" -> 9

Drop(s, n) == SubSeq(s, n + 1, Len(s))

StartsWith(s, p) == Len(s) >= Len(p) /\ SubSeq(s, 1, Len(p)) = p

RECURSIVE SkipWhiteSpace(_)
SkipWhiteSpace(s) ==
  IF s # <<>> /\ Head(s) \in WhiteSpace THEN SkipWhiteSpace(Tail(s)) ELSE s

RECURSIVE DigitRun(_)
\* the number of leading decimal digits of s
DigitRun(s) ==
  IF s # <<>> /\ Head(s) \in Digits THEN 1 + DigitRun(Tail(s)) ELSE 0

RECURSIVE DigitsVal(_, _)
\* the value of the first n characters of s, all digits
DigitsVal(s, n) ==
  IF n = 0 THEN 0 ELSE DigitsVal(s, n - 1) * 10 + DigitVal(s[n])

InfinityLiteral == <<"I", "n", "f", "i", "n", "i", "t", "y">>

\* parseFloat(str) of line 86: leading white space is skipped, then the
\* longest prefix that is a StrDecimalLiteral (sign, Infinity, or digits with
\* an optional fraction and exponent) is converted; no such prefix gives NaN.
\* The operators below take the literal apart from left to right.

\* the digits of an exponent: their value, 0 when there is none
DecimalDigits(s) == DigitsVal(s, DigitRun(s))

\* what follows the e of an exponent
SignedInteger(s) ==
  IF s # <<>> /\ Head(s) \in {"+", "-"}
  THEN (IF Head(s) = "-" THEN -1 ELSE 1) * DecimalDigits(Tail(s))
  ELSE DecimalDigits(s)

\* the exponent that starts s, 0 when s starts with none
ExponentPart(s) ==
  IF s # <<>> /\ Head(s) \in {"e", "E"} THEN SignedInteger(Tail(s)) ELSE 0

\* mant is the value of the ni + nf digits read, nf of them after the point
Mantissa(neg, mant, ni, nf, s) ==
  IF ni + nf = 0 THEN NaN ELSE Normalize(neg, mant, ExponentPart(s) - nf)

\* frac follows the point and starts with nf digits
Fraction(neg, int, ni, frac, nf) ==
  Mantissa(neg, int * (10 ^ nf) + DigitsVal(frac, nf), ni, nf, Drop(frac, nf))

\* s follows the ni integer digits, of value int
FracPart(neg, int, ni, s) ==
  IF s # <<>> /\ Head(s) = "."
  THEN Fraction(neg, int, ni, Tail(s), DigitRun(Tail(s)))
  ELSE Mantissa(neg, int, ni, 0, s)

\* s starts with ni digits
IntPart(neg, s, ni) == FracPart(neg, DigitsVal(s, ni), ni, Drop(s, ni))

\* s follows the sign
Unsigned(neg, s) ==
  IF StartsWith(s, InfinityLiteral) THEN Inf(neg) ELSE IntPart(neg, s, DigitRun(s))

StrDecimalLiteral(s) ==
  IF s # <<>> /\ Head(s) \in {"+", "-"}
  THEN Unsigned(Head(s) = "-", Tail(s))
  ELSE Unsigned(FALSE, s)

ParseFloat(str) == StrDecimalLiteral(SkipWhiteSpace(str))

\* ------------------------------------------------------------- Formatter
\* A raw row is a sequence of cells; row[1] of the source (column B) is the
\* second element here and is undefined when the row has fewer than two cells.
ColumnBDefined(row) == Len(row) >= 2

\* The body of the forEach callback, lines 82-91: c after the row.
PushRow(c, row) ==
  IF ColumnBDefined(row) /\ row[2] # <<>>
  THEN LET value == ParseFloat(row[2])
       IN  IF ~isNaN(value) THEN Append(c, value) ELSE c
  ELSE c

RECURSIVE ForEach(_, _)
\* dataRows.forEach(...) of line 82 applied to an initial c
ForEach(c, dataRows) ==
  IF dataRows = <<>> THEN c ELSE ForEach(PushRow(c, Head(dataRows)), Tail(dataRows))

\* values used where values.slice(1) is meant: the first row is kept
Slice1Keep(values) == values

\* values.slice(1) of line 74
Slice1(values) == SubSeq(values, 2, Len(values))

\* formattedData of lines 74-91 for the rows of a fetch
Format(values) == [s |-> "ok", c |-> ForEach(<<>>, Slice1(values))]

\* ------------------------------------------------------------ NodeCache
\* The one key "sheetData" of the cache of line 11: absent, or a value v with
\* the deadline t = (time of set) + stdTTL.  node-cache treats an entry as
\* expired once t < Date.now(), removes it when a get or its periodic check
\* finds it so, and hands out copies of the stored value.
NoSeries == [s |-> "", c |-> <<>>]
Absent == [present |-> FALSE, v |-> NoSeries, t |-> 0]

Expired(c, t) == c.present /\ c.t < t

\* a get that does not look at the deadline
CacheGetStale(c, t) ==
  IF c.present THEN [found |-> TRUE, value |-> c.v]
  ELSE [found |-> FALSE, value |-> NoSeries]

\* cache.get('sheetData') of line 36 at time t: the value, or undefined
CacheGet(c, t) ==
  IF c.present /\ ~Expired(c, t) THEN [found |-> TRUE, value |-> c.v]
  ELSE [found |-> FALSE, value |-> NoSeries]

\* the cache after cache.get at time t: an expired entry is deleted
CacheAfterGet(c, t) == IF Expired(c, t) THEN Absent ELSE c

\* a set whose deadline is the time of the set: the TTL is not added
CacheSetNoTtl(c, v, t) == [present |-> TRUE, v |-> v, t |-> t]

\* cache.set('sheetData', v) of line 94 at time t
CacheSet(c, v, t) == [present |-> TRUE, v |-> v, t |-> t + stdTTL]

\* a del of another key: the entry stays
CacheDelNothing(c) == c

\* cache.del('sheetData') of line 110: the cache after it
CacheDel(c) == Absent

\* the number of keys cache.del removed
CacheDelCount(c) == IF c.present THEN 1 ELSE 0

\* --------------------------------------------------- initializeGoogleSheets
\* GOOGLE_CREDENTIALS is unset or a text, here the sequence of its JSON
\* tokens ("str", "num" and "lit" stand for a string, a number and
\* true/false/null; any other token is text that is not JSON).
Unset == [set |-> FALSE, text |-> <<>>]
Text(toks) == [set |-> TRUE, text |-> toks]

JsonFail == <<"FAIL">>

RECURSIVE JsonValue(_)
RECURSIVE JsonMembers(_)
\* What is left of the tokens after one JSON value, or JsonFail.
JsonValue(ts) ==
  IF ts = <<>> THEN JsonFail
  ELSE IF Head(ts) \in {"str", "num", "lit"} THEN Tail(ts)
  ELSE IF Head(ts) = "{"
       THEN IF Len(ts) >= 2 /\ ts[2] = "}" THEN Drop(ts, 2) ELSE JsonMembers(Tail(ts))
  ELSE JsonFail

\* What is left after the members of an object and its closing brace.
JsonMembers(ts) ==
  IF Len(ts) >= 2 /\ ts[1] = "str" /\ ts[2] = ":"
  THEN LET rest == JsonValue(Drop(ts, 2))
       IN  IF rest = JsonFail \/ rest = <<>> THEN JsonFail
           ELSE IF Head(rest) = "}" THEN Tail(rest)
           ELSE IF Head(rest) = "," THEN JsonMembers(Tail(rest))
           ELSE JsonFail
  ELSE JsonFail

\* JSON.parse(text) throws a SyntaxError
JsonParseThrows(text) == JsonValue(text) # <<>>

\* process.env.GOOGLE_CREDENTIALS || '{}' of line 18: unset and the empty
\* string are falsy
CredentialsText(env) == IF env.set /\ env.text # <<>> THEN env.text ELSE <<"{", "}">>

\* initializeGoogleSheets, lines 16-30: null when JSON.parse throws; the
\* GoogleAuth and sheets objects are built without reading the credentials,
\* which the library first uses when a call is made.
InitializeGoogleSheets(env) ==
  IF JsonParseThrows(CredentialsText(env)) THEN "null" ELSE "sheets"

\* --------------------------------------------------------------- payloads
\* mockData of lines 48-51
MockData ==
  [s |-> "ok",
   c |-> <<Num(100), Num(105), Num(95), Num(110), Num(115),
           Num(105), Num(100), Num(90), Num(95), Num(120)>>]

\* the body of line 70
NotFoundBody == [error |-> "No data found in spreadsheet"]

\* the body of lines 101-104
ErrorBody(message) ==
  [error |-> "Failed to fetch data from Google Sheets", details |-> message]

\* the body of line 111
ClearedBody == [status |-> "Cache cleared"]

NoBody == [none |-> TRUE]

\* response.data.values || [] of line 67
ValuesOf(data) == IF data.has THEN data.values ELSE <<>>

\* the check of line 69 left out
NoDataFoundNever(values) == FALSE

\* the check of line 69 made on the data rows: a sheet of one row has no data
NoDataFoundHeader(values) == Len(values) <= 1

\* values.length === 0 of line 69
NoDataFound(values) == Len(values) = 0

\* ------------------------------------------------------------------ inputs
S_Date == <<"D", "a", "t", "e">>
S_Price == <<"P", "r", "i", "c", "e">>
S_Day == <<"2", "0", "2", "4", "-", "0", "1", "-", "0", "1">>
S_100 == <<"1", "0", "0">>
S_abc == <<"a", "b", "c">>
S_12abc == <<"1", "2", "a", "b", "c">>
S_neg == <<"-", "1", ".", "5">>
S_empty == <<>>

HeaderRow == <<S_Date, S_Price>>

\* the rows of the spec's scenario B
ScenarioB == <<HeaderRow, <<S_Day, S_100>>, <<S_Day, S_abc>>, <<S_Day, S_empty>>>>

\* what the upstream read can resolve to: response.data with or without values
NoValues == [has |-> FALSE, values |-> <<>>]
Values(rows) == [has |-> TRUE, values |-> rows]

UpstreamData ==
  { NoValues,
    Values(<<>>),
    Values(<<HeaderRow>>),
    Values(<<HeaderRow, <<S_Day, S_abc>>, <<S_Day>>>>),
    Values(ScenarioB),
    Values(<<HeaderRow, <<S_Day, InfinityLiteral>>>>) }

\* messages of the errors the upstream read can reject with
UpstreamErrors == {"ECONNRESET", "The caller does not have permission"}

\* values of GOOGLE_CREDENTIALS
CredentialSettings ==
  { Unset,
    Text(<<"{", "str", ":", "str", ",", "str", ":", "str", "}">>),
    Text(<<"{", "str", ":", "str">>) }

\* the clock advances by a second, by the TTL, or by a second more
TickSteps == {1, stdTTL, stdTTL + 1}

\* column-B cells and raw rows given to the formatter alone
Cells == {S_empty, S_100, S_abc, S_12abc, S_neg, InfinityLiteral}
RawRows == {HeaderRow, <<S_Day>>} \cup {<<S_Day, cell>> : cell \in Cells}

RECURSIVE SeqsUpTo(_, _)
\* the sequences over S of length at most n
SeqsUpTo(S, n) ==
  IF n = 0 THEN {<<>>}
  ELSE LET shorter == SeqsUpTo(S, n - 1)
       IN  shorter \cup {Append(q, x) : q \in {p \in shorter : Len(p) = n - 1}, x \in S}

\* ------------------------------------------------------------------- state
VARIABLES
  GOOGLE_CREDENTIALS,  \* process.env.GOOGLE_CREDENTIALS, fixed for the process
  cache,               \* the "sheetData" entry of the NodeCache of line 11
  now,                 \* Date.now(), in seconds
  ticks,               \* the clock advances so far
  req,                 \* the GET /api/sheet-data requests, by number
  refresh,             \* the latest response of GET /api/refresh-cache
  fmtValues,           \* formatter alone: the raw rows
  fmtC,                \* formatter alone: formattedData.c so far
  fmtI,                \* formatter alone: the index of the next data row
  fmtPc                \* formatter alone: "off", "loop" or "done"

vars == <<GOOGLE_CREDENTIALS, cache, now, ticks, req, refresh,
          fmtValues, fmtC, fmtI, fmtPc>>
handlerVars == <<GOOGLE_CREDENTIALS, cache, now, ticks, req, refresh>>
fmtVars == <<fmtValues, fmtC, fmtI, fmtPc>>

Requests == 1..MaxReq

\* A request that has not arrived.  kind names the path its response took;
\* calls and writes count its upstream calls and cache writes.  The rest is
\* history: wt is the time of its cache write when no cache-clear has followed
\* it (-1 otherwise), ovw whether another request wrote the cache while this
\* one waited on its upstream call or after this one wrote, and age, for a
\* response from the cache, the seconds from the latest cache write to the
\* arrival of this request.

NewReq ==
  [pc |-> "new", status |-> 0, kind |-> "none", body |-> NoBody, cors |-> FALSE,
   calls |-> 0, writes |-> 0, age |-> -1, wt |-> -1, ovw |-> FALSE]

\* res.status(status).json(body), with or without the header of line 97
Respond(q, status, kind, body, cors) ==
  [q EXCEPT !.pc = "done", !.status = status, !.kind = kind, !.body = body,
            !.cors = cors]

HandlerInit ==
  /\ cache = Absent
  /\ now = 0
  /\ ticks = 0
  /\ req = [r \in Requests |-> NewReq]
  /\ refresh = [status |-> 0, body |-> NoBody, deleted |-> 0, inflight |-> {}]

FmtOff ==
  /\ fmtValues = <<>>
  /\ fmtC = <<>>
  /\ fmtI = 0
  /\ fmtPc = "off"

Init ==
  /\ GOOGLE_CREDENTIALS \in CredentialSettings
  /\ HandlerInit
  /\ FmtOff

\* ----------------------------------------------------- GET /api/sheet-data
\* OnRequest with the mock series stored in the cache before it is sent
OnRequestCachingMock(q, c, env, t) ==
  LET cachedData == CacheGet(c, t)
      sheets == InitializeGoogleSheets(env)
  IN  IF cachedData.found
      THEN [cache |-> CacheAfterGet(c, t),
            req |-> Respond(q, 200, "cached", cachedData.value, FALSE)]
      ELSE IF sheets = "null"
      THEN [cache |-> CacheSet(c, MockData, t),
            req |-> Respond(q, 200, "mock", MockData, FALSE)]
      ELSE [cache |-> CacheAfterGet(c, t),
            req |-> [q EXCEPT !.pc = "await", !.calls = @ + 1]]

\* OnRequest with the header of line 97 set on a response from the cache too
OnRequestCorsOnHit(q, c, env, t) ==
  LET cachedData == CacheGet(c, t)
      sheets == InitializeGoogleSheets(env)
  IN  [cache |-> CacheAfterGet(c, t),
       req |-> IF cachedData.found
               THEN Respond(q, 200, "cached", cachedData.value, TRUE)
               ELSE IF sheets = "null"
               THEN Respond(q, 200, "mock", MockData, FALSE)
               ELSE [q EXCEPT !.pc = "await", !.calls = @ + 1]]

\* Lines 33-64: the handler from the arrival of request q, with the cache c
\* and the credentials env at time t, to its response or to the await of the
\* upstream read: the request and the cache after it.
OnRequest(q, c, env, t) ==
  LET cachedData == CacheGet(c, t)
      sheets == InitializeGoogleSheets(env)
  IN  [cache |-> CacheAfterGet(c, t),
       req |-> IF cachedData.found
               THEN Respond(q, 200, "cached", cachedData.value, FALSE)
               ELSE IF sheets = "null"
               THEN Respond(q, 200, "mock", MockData, FALSE)
               ELSE [q EXCEPT !.pc = "await", !.calls = @ + 1]]

\* OnResolve with the cache written before the loop of line 82 has run: the
\* entry is the series as first built, without its values
OnResolvePartial(q, c, data, t) ==
  LET values == ValuesOf(data)
      formattedData == Format(values)
  IN  IF NoDataFound(values)
      THEN [cache |-> c, req |-> Respond(q, 404, "notfound", NotFoundBody, FALSE)]
      ELSE [cache |-> CacheSet(c, [s |-> "ok", c |-> <<>>], t),
            req |-> [Respond(q, 200, "fresh", formattedData, TRUE)
                       EXCEPT !.writes = @ + 1]]

\* OnResolve with the cache written only when it has no entry: the series of
\* the first of two concurrent fetches stays
OnResolveFirstWins(q, c, data, t) ==
  LET values == ValuesOf(data)
      formattedData == Format(values)
  IN  IF NoDataFound(values)
      THEN [cache |-> c, req |-> Respond(q, 404, "notfound", NotFoundBody, FALSE)]
      ELSE [cache |-> IF c.present THEN c ELSE CacheSet(c, formattedData, t),
            req |-> [Respond(q, 200, "fresh", formattedData, TRUE)
                       EXCEPT !.writes = @ + 1]]

\* Lines 66-98: the handler of request q from the upstream read resolving
\* with data, at time t, to its response.
OnResolve(q, c, data, t) ==
  LET values == ValuesOf(data)
      formattedData == Format(values)
  IN  IF NoDataFound(values)
      THEN [cache |-> c, req |-> Respond(q, 404, "notfound", NotFoundBody, FALSE)]
      ELSE [cache |-> CacheSet(c, formattedData, t),
            req |-> [Respond(q, 200, "fresh", formattedData, TRUE)
                       EXCEPT !.writes = @ + 1]]

\* OnReject with the cache entry dropped on a failure
OnRejectClearing(q, c, message) ==
  [cache |-> CacheDel(c), req |-> Respond(q, 500, "error", ErrorBody(message), FALSE)]

\* OnReject with the upstream read issued once more after a first failure
OnRejectRetry(q, c, message) ==
  IF q.calls < 2
  THEN [cache |-> c, req |-> [q EXCEPT !.calls = @ + 1]]
  ELSE [cache |-> c, req |-> Respond(q, 500, "error", ErrorBody(message), FALSE)]

\* Lines 99-105: the handler of request q from the upstream read rejecting
\* with an error of that message to its response.
OnReject(q, c, message) ==
  [cache |-> c, req |-> Respond(q, 500, "error", ErrorBody(message), FALSE)]

\* the time of the latest cache write that no cache-clear followed, or -1
LastWrite ==
  LET times == {req[w].wt : w \in {q \in Requests : req[q].wt >= 0 /\ ~req[q].ovw}}
  IN  IF times = {} THEN -1 ELSE CHOOSE t \in times : \A u \in times : u <= t

\* an arrival that is held back while another request waits on its upstream
\* call
ArriveSerial(r) ==
  /\ req[r].pc = "new"
  /\ \A q \in Requests : q < r => req[q].pc # "new"
  /\ \A q \in Requests : req[q].pc # "await"
  /\ LET out == OnRequest(req[r], cache, GOOGLE_CREDENTIALS, now)
     IN  /\ cache' = out.cache
         /\ req' = [req EXCEPT ![r] =
                      IF out.req.kind = "cached" /\ LastWrite >= 0
                      THEN [out.req EXCEPT !.age = now - LastWrite]
                      ELSE out.req]
  /\ UNCHANGED <<GOOGLE_CREDENTIALS, now, ticks, refresh, fmtVars>>

\* Request r arrives.
Arrive(r) ==
  /\ req[r].pc = "new"
  /\ \A q \in Requests : q < r => req[q].pc # "new"
  /\ LET out == OnRequest(req[r], cache, GOOGLE_CREDENTIALS, now)
     IN  /\ cache' = out.cache
         /\ req' = [req EXCEPT ![r] =
                      IF out.req.kind = "cached" /\ LastWrite >= 0
                      THEN [out.req EXCEPT !.age = now - LastWrite]
                      ELSE out.req]
  /\ UNCHANGED <<GOOGLE_CREDENTIALS, now, ticks, refresh, fmtVars>>

\* The upstream read of request r resolves with data.
UpstreamReturns(r, data) ==
  /\ req[r].pc = "await"
  /\ LET out == OnResolve(req[r], cache, data, now)
         wrote == out.req.writes > req[r].writes
     IN  /\ cache' = out.cache
         /\ req' = [q \in Requests |->
                      IF q = r
                      THEN IF wrote THEN [out.req EXCEPT !.wt = now, !.ovw = FALSE]
                           ELSE [out.req EXCEPT !.ovw = FALSE]
                      ELSE IF wrote /\ (req[q].pc = "await" \/ req[q].wt >= 0)
                      THEN [req[q] EXCEPT !.ovw = TRUE]
                      ELSE req[q]]
  /\ UNCHANGED <<GOOGLE_CREDENTIALS, now, ticks, refresh, fmtVars>>

\* The upstream read of request r rejects with an error.
UpstreamRaises(r, message) ==
  /\ req[r].pc = "await"
  /\ LET out == OnReject(req[r], cache, message)
     IN  /\ cache' = out.cache
         /\ req' = [req EXCEPT ![r] = [out.req EXCEPT !.ovw = FALSE]]
  /\ UNCHANGED <<GOOGLE_CREDENTIALS, now, ticks, refresh, fmtVars>>

\* -------------------------------------------------- GET /api/refresh-cache
\* the requests that wait on their upstream call
InFlight == {q \in Requests : req[q].pc = "await"}

\* a cache-clear that also ends the requests in flight, with a 500
RefreshCancelling ==
  /\ cache' = CacheDel(cache)
  /\ refresh' = [status |-> 200, body |-> ClearedBody,
                 deleted |-> CacheDelCount(cache), inflight |-> InFlight]
  /\ req' = [q \in Requests |->
               IF q \in InFlight
               THEN Respond([req[q] EXCEPT !.wt = -1], 500, "error",
                            ErrorBody("cancelled"), FALSE)
               ELSE [req[q] EXCEPT !.wt = -1]]
  /\ UNCHANGED <<GOOGLE_CREDENTIALS, now, ticks, fmtVars>>

\* Lines 109-112; deleted is what cache.del returned and inflight the
\* requests that waited on their upstream call when the handler ran.
Refresh ==
  /\ cache' = CacheDel(cache)
  /\ refresh' = [status |-> 200, body |-> ClearedBody,
                 deleted |-> CacheDelCount(cache), inflight |-> InFlight]
  /\ req' = [q \in Requests |-> [req[q] EXCEPT !.wt = -1]]
  /\ UNCHANGED <<GOOGLE_CREDENTIALS, now, ticks, fmtVars>>

\* ------------------------------------------------------------ environment
\* Time passes.
Tick(d) ==
  /\ ticks < MaxTicks
  /\ now' = now + d
  /\ ticks' = ticks + 1
  /\ UNCHANGED <<GOOGLE_CREDENTIALS, cache, req, refresh, fmtVars>>

\* The periodic check of the cache finds the entry expired and removes it.
CheckData ==
  /\ Expired(cache, now)
  /\ cache' = Absent
  /\ UNCHANGED <<GOOGLE_CREDENTIALS, now, ticks, req, refresh, fmtVars>>

Next ==
  \/ \E r \in Requests : Arrive(r)
  \/ \E r \in Requests, data \in UpstreamData : UpstreamReturns(r, data)
  \/ \E r \in Requests, message \in UpstreamErrors : UpstreamRaises(r, message)
  \/ Refresh
  \/ \E d \in TickSteps : Tick(d)
  \/ CheckData

Spec == Init /\ [][Next]_vars

\* The upstream call of request r settles: the promise awaited at line 61
\* resolves or rejects.
Settle(r) ==
  \/ \E data \in UpstreamData : UpstreamReturns(r, data)
  \/ \E message \in UpstreamErrors : UpstreamRaises(r, message)

\* A process started with credentials in GOOGLE_CREDENTIALS from which line
\* 18 builds a client.  (Unset, line 18 builds the same client from '{}';
\* with a text that is not JSON no request ever waits on an upstream call.)
LiveInit ==
  /\ Init
  /\ GOOGLE_CREDENTIALS.set
  /\ InitializeGoogleSheets(GOOGLE_CREDENTIALS) = "sheets"

\* That process when every upstream call that was issued settles, the event
\* loop then running the rest of the handler.
LiveSpec == LiveInit /\ [][Next]_vars /\ \A r \in Requests : WF_vars(Settle(r))

\* ------------------------------------------------- the formatter by itself
\* Lines 73-91 run on every sequence of at most MaxRows raw rows that passes
\* the check of line 69, one data row per step.
FmtInit ==
  /\ GOOGLE_CREDENTIALS = Unset
  /\ HandlerInit
  /\ fmtValues \in {v \in SeqsUpTo(RawRows, MaxRows) : ~NoDataFound(v)}
  /\ fmtC = <<>>
  /\ fmtI = 1
  /\ fmtPc = "loop"

\* one call of the forEach callback
FmtRow ==
  /\ fmtPc = "loop"
  /\ fmtI <= Len(Slice1(fmtValues))
  /\ fmtC' = PushRow(fmtC, Slice1(fmtValues)[fmtI])
  /\ fmtI' = fmtI + 1
  /\ UNCHANGED <<fmtValues, fmtPc, handlerVars>>

\* forEach returns
FmtEnd ==
  /\ fmtPc = "loop"
  /\ fmtI > Len(Slice1(fmtValues))
  /\ fmtPc' = "done"
  /\ UNCHANGED <<fmtValues, fmtC, fmtI, handlerVars>>

FmtNext == FmtRow \/ FmtEnd

FmtSpec == FmtInit /\ [][FmtNext]_vars

\* ================================================================ claims
EmptySeries == [s |-> "ok", c |-> <<>>]

\* what the handler does with a request that arrives now: the request at its
\* response, or at the await of its upstream call
NextRequest == OnRequest(NewReq, cache, GOOGLE_CREDENTIALS, now).req

\* a request arriving now misses the cache and waits on its own fetch
NextRequestFetches == NextRequest.pc = "await"

\* ---------------------------------------------------------------------- C1
\* C1 as stated: once a request w has written the cache, a request that
\* arrives within the TTL window of that write, with no cache-clear since it,
\* is answered 200 with the body w was answered with, without an upstream
\* call.
C1_Original ==
  \A w \in Requests :
    (req[w].wt >= 0 /\ now <= req[w].wt + stdTTL)
      => /\ NextRequest.pc = "done"
         /\ NextRequest.status = 200
         /\ NextRequest.body = req[w].body
         /\ NextRequest.calls = 0

\* C1 amended: the same, when no other request has written the cache since
\* the write of w either.
C1_CachedWithinTtl ==
  \A w \in Requests :
    (req[w].wt >= 0 /\ ~req[w].ovw /\ now <= req[w].wt + stdTTL)
      => /\ NextRequest.pc = "done"
         /\ NextRequest.status = 200
         /\ NextRequest.kind = "cached"
         /\ NextRequest.body = req[w].body
         /\ NextRequest.calls = 0

\* a request was served, some time after the write, the series another wrote
C1_Witness ==
  \E w, r \in Requests :
    /\ w # r
    /\ req[w].wt >= 0 /\ ~req[w].ovw
    /\ req[r].kind = "cached" /\ req[r].age > 0 /\ req[r].calls = 0
    /\ req[r].body = req[w].body

\* ---------------------------------------------------------------------- C2
\* C2: with GOOGLE_CREDENTIALS absent or not JSON, no request waits on an
\* upstream call, and every request that missed the cache was answered 200
\* with the mock series without an upstream call.
C2_NoCredentialsMock ==
  (~GOOGLE_CREDENTIALS.set \/ JsonParseThrows(GOOGLE_CREDENTIALS.text))
    => \A r \in Requests :
         /\ req[r].pc # "await"
         /\ (req[r].pc = "done" /\ req[r].kind # "cached")
              => /\ req[r].status = 200
                 /\ req[r].body = MockData
                 /\ req[r].calls = 0

\* ---------------------------------------------------------------------- C3
\* GOOGLE_CREDENTIALS is a text that is not JSON: no client can be built
ClientUnavailable ==
  /\ GOOGLE_CREDENTIALS.set
  /\ GOOGLE_CREDENTIALS.text # <<>>
  /\ JsonParseThrows(GOOGLE_CREDENTIALS.text)

\* C3: a request answered with the mock series wrote nothing to the cache,
\* and while no client can be built the cache has no entry and every request
\* is answered with the mock series, never from the cache.
C3_MockNeverCached ==
  /\ \A r \in Requests :
       req[r].kind = "mock" => req[r].writes = 0 /\ req[r].calls = 0
  /\ ClientUnavailable
       => /\ cache = Absent
          /\ \A r \in Requests :
               /\ req[r].pc # "await"
               /\ req[r].pc = "done"
                    => /\ req[r].kind = "mock"
                       /\ req[r].status = 200
                       /\ req[r].body = MockData

\* all the requests were answered with the mock series, time having passed
C3_Witness ==
  /\ ClientUnavailable
  /\ \A r \in Requests : req[r].kind = "mock"
  /\ now > 0
  /\ cache = Absent

\* ---------------------------------------------------------------------- C4
\* C4: when the upstream call of request r rejects with a message, r is
\* answered 500 with the fixed error text and that message, the cache and the
\* other requests are as before, and r has made its one call; a request so
\* answered makes no further call and gets no other response.
C4_UpstreamError ==
  [][/\ \A r \in Requests, m \in UpstreamErrors :
          UpstreamRaises(r, m)
            => /\ req'[r].pc = "done"
               /\ req'[r].status = 500
               /\ req'[r].body = [error |-> "Failed to fetch data from Google Sheets",
                                  details |-> m]
               /\ req'[r].calls = 1
               /\ req'[r].writes = 0
               /\ cache' = cache
               /\ \A q \in Requests \ {r} : req'[q] = req[q]
     /\ \A r \in Requests :
          req[r].kind = "error"
            => /\ req'[r].pc = "done"
               /\ req'[r].calls = req[r].calls
               /\ req'[r].status = 500
               /\ req'[r].body = req[r].body]_vars

\* a request was answered 500 and the cache holds a live entry of another
C4_Witness ==
  \E r \in Requests :
    /\ req[r].kind = "error"
    /\ req[r].body.details = "ECONNRESET"
    /\ CacheGet(cache, now).found

\* ---------------------------------------------------------------------- C5
ZeroRows(data) == ~data.has \/ data.values = <<>>

\* C5 as stated: when the upstream call of r resolves with no rows, r is
\* answered 404 with the fixed error, nothing is written, and the next
\* request misses the cache and fetches.
C5_Original ==
  [][\A r \in Requests, data \in UpstreamData :
       (UpstreamReturns(r, data) /\ ZeroRows(data))
         => /\ req'[r].pc = "done"
            /\ req'[r].status = 404
            /\ req'[r].body = [error |-> "No data found in spreadsheet"]
            /\ req'[r].writes = 0
            /\ cache' = cache
            /\ NextRequestFetches']_vars

\* C5 amended: the same, the next request missing the cache when no other
\* request has written the cache since r arrived.
C5_NotFound ==
  [][\A r \in Requests, data \in UpstreamData :
       (UpstreamReturns(r, data) /\ ZeroRows(data))
         => /\ req'[r].pc = "done"
            /\ req'[r].status = 404
            /\ req'[r].body = [error |-> "No data found in spreadsheet"]
            /\ req'[r].writes = 0
            /\ cache' = cache
            /\ ~req[r].ovw => NextRequestFetches']_vars

\* a request was answered 404, and one that arrived after it waits on a fetch
C5_Witness ==
  \E r, q \in Requests :
    /\ req[r].kind = "notfound"
    /\ ~req[r].ovw
    /\ ~cache.present
    /\ q > r
    /\ req[q].pc = "await"

\* ---------------------------------------------------------------------- C6
\* column B of the row is defined, not empty and parses to a number
Yields(row) == Len(row) >= 2 /\ row[2] # <<>> /\ ParseFloat(row[2]).k # "nan"

\* at least one row, and no row after the first yields a value
NoValueRows(data) ==
  /\ data.has
  /\ Len(data.values) >= 1
  /\ \A i \in 2..Len(data.values) : ~Yields(data.values[i])

\* the upstream call of a request resolves with such rows in this step
NoValueFetch(r) ==
  \E data \in UpstreamData : UpstreamReturns(r, data) /\ NoValueRows(data)

\* C6 as stated: such a fetch is answered 200 with the empty series, which
\* is stored, and a request arriving within the TTL window of that write (no
\* cache-clear since) is answered from the cache with the empty series.
C6_Original ==
  /\ [][\A r \in Requests :
          NoValueFetch(r)
            => /\ req'[r].status = 200
               /\ req'[r].kind = "fresh"
               /\ req'[r].body = EmptySeries
               /\ CacheGet(cache', now) = [found |-> TRUE, value |-> EmptySeries]]_vars
  /\ [](\A w \in Requests :
          (req[w].wt >= 0 /\ req[w].body = EmptySeries /\ now <= req[w].wt + stdTTL)
            => /\ NextRequest.kind = "cached"
               /\ NextRequest.status = 200
               /\ NextRequest.body = EmptySeries)

\* C6 amended: the same, for a request arriving while no other request has
\* written the cache since.
C6_EmptySeries ==
  /\ [][\A r \in Requests :
          NoValueFetch(r)
            => /\ req'[r].status = 200
               /\ req'[r].kind = "fresh"
               /\ req'[r].body = EmptySeries
               /\ CacheGet(cache', now) = [found |-> TRUE, value |-> EmptySeries]]_vars
  /\ [](\A w \in Requests :
          (req[w].wt >= 0 /\ ~req[w].ovw /\ req[w].body = EmptySeries
             /\ now <= req[w].wt + stdTTL)
            => /\ NextRequest.kind = "cached"
               /\ NextRequest.status = 200
               /\ NextRequest.body = EmptySeries)

\* the empty series was written and, later, served from the cache
C6_Witness ==
  \E w, r \in Requests :
    /\ req[w].wt >= 0 /\ ~req[w].ovw
    /\ req[w].kind = "fresh" /\ req[w].body = EmptySeries
    /\ req[r].kind = "cached" /\ req[r].body = EmptySeries /\ req[r].age > 0

\* ---------------------------------------------------------------------- C7
\* the rows after the first that yield a value, by index
KeptRows(values) == {i \in 2..Len(values) : Yields(values[i])}

\* c holds, in row order, the parsed column B of exactly the rows of KeptRows
IsSeriesOf(c, values) ==
  /\ Len(c) = Cardinality(KeptRows(values))
  /\ \A i \in KeptRows(values) :
       c[Cardinality({j \in KeptRows(values) : j <= i})] = ParseFloat(values[i][2])

isFinite(v) == v.k = "num"

AllFinite(c) == \A i \in 1..Len(c) : isFinite(c[i])

\* C8: every element of the series in the cache, and of every series sent
\* from a fetch or from the cache, is a finite number.
C8_FiniteValues ==
  /\ cache.present => AllFinite(cache.v.c)
  /\ \A r \in Requests :
       req[r].kind \in {"fresh", "cached"} => AllFinite(req[r].body.c)

\* ---------------------------------------------------------------------- C9
\* C9: every GET /api/refresh-cache is answered 200 with "Cache cleared" and
\* leaves the cache without an entry, whether there was one, expired or not,
\* or none; a call that follows another is answered as that one was, and a
\* call made with the cache already cleared leaves it as it is.
C9_RefreshCache ==
  [][Refresh
       => /\ ~cache'.present
          /\ ~CacheGet(cache', now).found
          /\ refresh'.status = 200
          /\ refresh'.body = [status |-> "Cache cleared"]
          /\ refresh.status # 0
               => refresh'.status = refresh.status /\ refresh'.body = refresh.body
          /\ ~cache.present => cache' = cache
          /\ \A r \in Requests :
               /\ req'[r].pc = req[r].pc
               /\ req'[r].body = req[r].body]_vars

\* the endpoint was called after a cache write, which it cleared, and the
\* latest call found the cache already cleared; no entry has expired
C9_Witness ==
  /\ refresh.status = 200
  /\ refresh.deleted = 0
  /\ ~cache.present
  /\ now = 0
  /\ \E r \in Requests : req[r].kind = "fresh" /\ req[r].wt = -1

\* --------------------------------------------------------------------- C10
\* the response of r in this step is a cache hit
CacheHit(r) == Arrive(r) /\ req'[r].kind = "cached"

\* C10 as stated: a cache hit serves a series written less than stdTTL
\* seconds before, a hit leaves the entry and its deadline as they are, the
\* deadline is set by a cache write only, and a request arriving after the
\* expiry of the latest write is no cache hit.
C10_Original ==
  [][/\ \A r \in Requests :
          /\ CacheHit(r)
               => /\ LastWrite >= 0
                  /\ now - LastWrite < stdTTL
                  /\ cache' = cache
          /\ (Arrive(r) /\ LastWrite >= 0 /\ now - LastWrite > stdTTL)
               => req'[r].kind # "cached"
     /\ (cache'.present /\ cache' # cache)
          => \E r \in Requests : req'[r].writes = req[r].writes + 1]_vars

\* C10 amended: the same with "at most stdTTL seconds before": the entry is
\* still served at the second its deadline falls on.
C10_ServedUnexpired ==
  [][/\ \A r \in Requests :
          /\ CacheHit(r)
               => /\ LastWrite >= 0
                  /\ now - LastWrite <= stdTTL
                  /\ cache' = cache
          /\ (Arrive(r) /\ LastWrite >= 0 /\ now - LastWrite > stdTTL)
               => req'[r].kind # "cached"
     /\ (cache'.present /\ cache' # cache)
          => \E r \in Requests : req'[r].writes = req[r].writes + 1]_vars

\* a request was served from the cache at the very second of the deadline
C10_Witness ==
  \E r \in Requests :
    /\ req[r].kind = "cached" /\ req[r].age = stdTTL
    /\ now = LastWrite + stdTTL

\* --------------------------------------------------------------------- C11
\* a client can be built from GOOGLE_CREDENTIALS
ClientAvailable == InitializeGoogleSheets(GOOGLE_CREDENTIALS) = "sheets"

\* the series of the spec's formatter for the rows of a fetch, written out
SeriesOf(data) ==
  CASE data = Values(<<HeaderRow>>) -> EmptySeries
    [] data = Values(<<HeaderRow, <<S_Day, S_abc>>, <<S_Day>>>>) -> EmptySeries
    [] data = Values(ScenarioB) -> [s |-> "ok", c |-> <<Num(100)>>]
    [] data = Values(<<HeaderRow, <<S_Day, InfinityLiteral>>>>)
         -> [s |-> "ok", c |-> <<Inf(FALSE)>>]

\* C11: a request that misses the cache issues its own upstream call whether
\* or not another request waits on one, so two requests that both looked up
\* the cache before either wrote it each wait on a call of their own; each
\* whose call returns rows is answered 200 with the whole series of its own
\* rows, which is then the entry of the cache, the other request being left
\* as it was; and the entry is the series of the request that wrote last.
C11_NoSingleFlight ==
  /\ [][\A r \in Requests :
          /\ (Arrive(r) /\ ~CacheGet(cache, now).found /\ ClientAvailable)
               => /\ req'[r].pc = "await"
                  /\ req'[r].calls = 1
                  /\ \A q \in Requests \ {r} :
                       req[q].pc = "await" => req'[q].pc = "await" /\ req'[q].calls = 1
          /\ \A data \in UpstreamData :
               (UpstreamReturns(r, data) /\ ~ZeroRows(data))
                 => /\ req'[r].pc = "done"
                    /\ req'[r].status = 200
                    /\ req'[r].body = SeriesOf(data)
                    /\ CacheGet(cache', now) = [found |-> TRUE, value |-> SeriesOf(data)]
                    /\ \A q \in Requests \ {r} :
                         /\ req'[q].pc = req[q].pc
                         /\ req'[q].status = req[q].status
                         /\ req'[q].body = req[q].body]_vars
  /\ [](\A w \in Requests :
          (req[w].wt >= 0 /\ ~req[w].ovw /\ now <= req[w].wt + stdTTL)
            => cache.present /\ cache.v = req[w].body)

\* with no cache-clear and no time passed, the two requests were answered 200
\* with different series, each from its own call, and the cache holds the
\* series of the one that wrote last
C11_Witness ==
  /\ now = 0
  /\ refresh.status = 0
  /\ \A r \in Requests :
       req[r].kind = "fresh" /\ req[r].status = 200 /\ req[r].calls = 1
  /\ req[1].body # req[2].body
  /\ req[2].ovw /\ ~req[1].ovw
  /\ cache.v = req[1].body

\* --------------------------------------------------------------------- C12
\* the responses of GET /api/sheet-data: the path taken and its status
Responses ==
  { <<"cached", 200>>, <<"mock", 200>>, <<"fresh", 200>>,
    <<"notfound", 404>>, <<"error", 500>> }

\* the steps of the handler in the order of the code
Rank(pc) == CASE pc = "new" -> 0 [] pc = "await" -> 1 [] pc = "done" -> 2

\* C12: a request has no response before it is done and then has one of the
\* five responses, which no later step changes or follows with another; it
\* has made at most one upstream call and at most one cache write, the call
\* being issued on leaving the lookup and nowhere else and the write made by
\* the fresh response only; and no step takes the handler back to an earlier
\* step.
C12_OneResponse ==
  /\ [](\A r \in Requests :
          /\ req[r].calls <= 1
          /\ req[r].writes <= 1
          /\ req[r].pc = "new" => req[r].status = 0 /\ req[r].calls = 0
          /\ req[r].pc = "await"
               => req[r].status = 0 /\ req[r].calls = 1 /\ req[r].writes = 0
          /\ req[r].pc = "done" => <<req[r].kind, req[r].status>> \in Responses
          /\ req[r].writes = 1 <=> req[r].kind = "fresh"
          /\ req[r].kind \in {"cached", "mock"} => req[r].calls = 0
          /\ req[r].kind \in {"fresh", "notfound", "error"} => req[r].calls = 1)
  /\ [][\A r \in Requests :
          /\ Rank(req'[r].pc) >= Rank(req[r].pc)
          /\ req'[r].calls > req[r].calls => req[r].pc = "new"
          /\ req[r].pc = "done"
               => /\ req'[r].pc = "done"
                  /\ req'[r].status = req[r].status
                  /\ req'[r].kind = req[r].kind
                  /\ req'[r].body = req[r].body
                  /\ req'[r].cors = req[r].cors
                  /\ req'[r].calls = req[r].calls
                  /\ req'[r].writes = req[r].writes]_vars

\* one request was answered 404 and the other 500, each after its one call,
\* and the cache-clear endpoint has run since
C12_Witness ==
  \E r, q \in Requests :
    /\ req[r].kind = "notfound" /\ req[r].calls = 1
    /\ req[q].kind = "error" /\ req[q].calls = 1
    /\ refresh.status = 200

\* --------------------------------------------------------------------- C13
\* the request that arrives next, if any is left
NextArrival == {r \in Requests : req[r].pc = "new" /\ \A q \in Requests : q < r => req[q].pc # "new"}

\* C13: while a request waits on its upstream call, the handler of a request
\* that arrives, the handler of the cache-clear endpoint and the rest of the
\* handler of any other waiting request can all run, and the steps of the
\* others leave it waiting; the settlement of its own call takes it to its
\* response; and when every issued upstream call settles no request waits
\* for ever, so every request that waits on a call gets its response.
C13_BlocksOnlyItself ==
  /\ [](\A r \in Requests :
          req[r].pc = "await"
            => /\ \A q \in NextArrival : ENABLED Arrive(q)
               /\ ENABLED Refresh
               /\ \A q \in InFlight : ENABLED Settle(q))
  /\ [][\A r \in Requests :
          req[r].pc = "await"
            => /\ ~Settle(r) => req'[r].pc = "await"
               /\ Settle(r) => req'[r].pc = "done" /\ req'[r].status # 0]_vars
  /\ \A r \in Requests : []<>(req[r].pc # "await")

\* while the first request waits on its upstream call, the second arrived,
\* was answered from its own fetch, and a cache-clear ran after that
C13_Witness ==
  /\ req[1].pc = "await"
  /\ req[2].kind = "fresh"
  /\ req[2].wt = -1
  /\ refresh.status = 200
  /\ refresh.inflight = {1}

\* --------------------------------------------------------------------- C14
\* the upstream results that count as a successful fetch with rows
FetchesWithRows == {data \in UpstreamData : ~ZeroRows(data)}

\* v is a whole series: s = "ok" and c the column-B numbers, in row order,
\* of all the rows of data after the first that yield one
WholeSeriesOf(v, data) == v.s = "ok" /\ IsSeriesOf(v.c, data.values)

\* C14: the cache has no entry or holds a whole series, the output of the
\* formatter for the rows of one fetch that returned at least one row, and
\* never an error payload; a request answered with the mock series, a 404 or
\* a 500 has written nothing; a step that gives the cache an entry or
\* another one is the cache write of a request whose fetch returned rows and
\* stores the whole series of those rows; and an entry is taken out only by
\* the cache-clear endpoint or when it has expired.
C14_CacheContent ==
  /\ [](/\ cache.present
             => /\ cache.v \notin {NotFoundBody} \cup {ErrorBody(m) : m \in UpstreamErrors}
                /\ \E data \in FetchesWithRows : WholeSeriesOf(cache.v, data)
        /\ ~cache.present => cache = Absent
        /\ \A r \in Requests :
             req[r].kind \in {"mock", "notfound", "error"} => req[r].writes = 0)
  /\ [][/\ (cache'.present /\ cache' # cache)
             => \E r \in Requests, data \in FetchesWithRows :
                  /\ UpstreamReturns(r, data)
                  /\ req'[r].writes = req[r].writes + 1
                  /\ WholeSeriesOf(cache'.v, data)
                  /\ cache'.t = now + stdTTL
        /\ (cache.present /\ ~cache'.present)
             => Refresh \/ Expired(cache, now)]_vars

\* an entry was written, served from the cache once, and has since expired
\* and been taken out, no cache-clear having run
C14_Witness ==
  /\ refresh.status = 0
  /\ ~cache.present
  /\ now > stdTTL
  /\ \E w, r \in Requests :
       /\ req[w].kind = "fresh" /\ req[w].body = [s |-> "ok", c |-> <<Num(100)>>]
       /\ req[r].kind = "cached" /\ req[r].body = req[w].body

\* --------------------------------------------------------------------- C15
\* C15: the cache-clear endpoint leaves every request that waits on its
\* upstream call waiting, with its call still out; when the call of such a
\* request then returns rows the request writes its series to the cache all
\* the same, and a request arriving then is answered from the cache with
\* that series, fetched by a call issued before the clear; and as long as
\* that write is the latest and has not expired a request arriving is so
\* answered.
C15_ClearKeepsFetch ==
  /\ [][/\ Refresh
             => /\ refresh'.inflight = InFlight
                /\ \A r \in InFlight :
                     /\ req'[r].pc = "await"
                     /\ req'[r].calls = req[r].calls
                     /\ req'[r].status = 0
        /\ \A r \in refresh.inflight, data \in FetchesWithRows :
             UpstreamReturns(r, data)
               => /\ req'[r].writes = 1
                  /\ req'[r].kind = "fresh"
                  /\ cache'.present /\ cache'.v = req'[r].body
                  /\ NextRequest'.kind = "cached"
                  /\ NextRequest'.body = req'[r].body
                  /\ NextRequest'.calls = 0]_vars
  /\ [](\A r \in refresh.inflight :
          /\ refresh.status = 200
          /\ req[r].pc # "new"
          /\ req[r].kind = "fresh" => req[r].wt >= 0
          /\ (req[r].kind = "fresh" /\ ~req[r].ovw /\ now <= req[r].wt + stdTTL)
               => /\ NextRequest.kind = "cached"
                  /\ NextRequest.body = req[r].body)

\* the first request waited on its call when the cache was cleared, wrote
\* its series afterwards, and the second was then answered from the cache
\* with that series
C15_Witness ==
  /\ refresh.status = 200
  /\ refresh.inflight = {1}
  /\ req[1].kind = "fresh" /\ req[1].body = [s |-> "ok", c |-> <<Num(100)>>]
  /\ req[1].wt >= 0
  /\ req[2].kind = "cached" /\ req[2].calls = 0 /\ req[2].cors = FALSE
  /\ req[2].body = req[1].body

\* --------------------------------------------------------------------- C16
\* C16: a response carries Access-Control-Allow-Origin: * exactly when the
\* request wrote the cache, that is on the 200 of a fetch with rows; the
\* responses from the cache, with the mock series, 404 and 500 do not carry
\* it, so a series sent with the header by the request that fetched it is
\* sent without it to a request arriving while it is the live entry.
C16_CorsOnFreshOnly ==
  /\ \A r \in Requests :
       /\ req[r].cors <=> (req[r].pc = "done" /\ req[r].writes = 1)
       /\ req[r].cors <=> (req[r].kind = "fresh" /\ req[r].status = 200)
       /\ req[r].kind \in {"cached", "mock", "notfound", "error"} => ~req[r].cors
  /\ NextRequest.pc = "done" => ~NextRequest.cors
  /\ \A w \in Requests :
       (req[w].wt >= 0 /\ ~req[w].ovw /\ now <= req[w].wt + stdTTL)
         => /\ req[w].cors
            /\ NextRequest.body = req[w].body
            /\ ~NextRequest.cors

\* the same series was sent with the header to the request that fetched it
\* and without it to the one answered from the cache, and a third response,
\* had there been one, would be without it too
C16_Witness ==
  \E w, r \in Requests :
    /\ req[w].kind = "fresh" /\ req[w].cors
    /\ req[r].kind = "cached" /\ ~req[r].cors
    /\ req[r].body = req[w].body
    /\ req[w].body.c # <<>>
    /\ NextRequest.kind = "cached" /\ ~NextRequest.cors

====
